---- MODULE Spec2Model ----
(***************************************************************************)
(* Sentinel Research Agent (src/sra): the LangGraph workflow built by      *)
(* build_workflow (graph.py), the run entry point (cli.py) and the Google  *)
(* search tool with its retry loop (tools.py).                             *)
(*                                                                         *)
(* Representation.  A Python str is a sequence of one-character strings    *)
(* ("a.com" is abbreviated to <<"a">>), so that str.lower is computed      *)
(* character by character.  Python None is the value None below.  A dict   *)
(* with optional keys is a record whose DOMAIN holds the keys present; the *)
(* AgentState mapping (TypedDict, total=False) is one variable per key     *)
(* plus the set `keys` of the keys that are present.  The snippet of a hit *)
(* is not modelled (no operation below branches on it).                    *)
(***************************************************************************)
EXTENDS Integers, Sequences, FiniteSets, TLC

VARIABLES
    cli_max_iters,   \* the --max-iters option of cli.run
    pc,              \* next node of the graph, or how workflow.invoke ended
    step,            \* superstep counter of the graph runtime
    keys,            \* keys present in the AgentState mapping
    messages,        \* AgentState["messages"] (reducer operator.add)
    research_query,  \* AgentState["research_query"]
    search_results,  \* AgentState["search_results"] (reducer operator.add)
    search_error,    \* AgentState["search_error"]
    num_results,     \* AgentState["num_results"]
    freshness,       \* AgentState["freshness"]
    iterations,      \* AgentState["iterations"]
    max_iters,       \* AgentState["max_iters"]
    status,          \* AgentState["status"]
    final_report,    \* AgentState["final_report"]
    trace,           \* the nodes executed so far, in order
    script,          \* what the search provider answered to the attempts of the last call
    ret,             \* what the last GoogleSearchTool.run call returned
    decision,        \* the AnalyzerDecision the last analyzer_chain.invoke returned
    search_context,  \* "search_context" of the last analyzer/reporter chain.invoke
    source_ids       \* "source_ids" of the last reporter_chain.invoke

vars == <<cli_max_iters, pc, step, keys, messages, research_query, search_results,
          search_error, num_results, freshness, iterations, max_iters, status,
          final_report, trace, script, ret, decision, search_context, source_ids>>

-----------------------------------------------------------------------------
\* Bounds of the model

\* largest --max-iters value explored (the option's default is 4)
MaxBudget == 3

-----------------------------------------------------------------------------
\* Values

None == <<"None">>

\* Python truthiness of an Optional[str]
Truthy(x) == x # None /\ x # <<>>

\* Optional[int] = None of AnalyzerDecision.num_results (valid values are >= 1)
NoNum == 0

lower_char(c) ==
    CASE c = "A" -> "a"
      [] c = "B" -> "b"
      [] c = "T" -> "t"
      [] c = "U" -> "u"
      [] OTHER -> c

\* str.lower()
lower(s) == [i \in DOMAIN s |-> lower_char(s[i])]

Reverse(s) == [i \in 1..Len(s) |-> s[Len(s) + 1 - i]]

Take(s, n) == SubSeq(s, 1, IF Len(s) < n THEN Len(s) ELSE n)

\* dict.get(key, default)
dict_get(d, key, default) == IF key \in DOMAIN d THEN d[key] ELSE default

-----------------------------------------------------------------------------
\* graph.py: deduplication and formatting of hits

MAX_CONTEXT_HITS == 12

\* (hit.get("url") or hit.get("title", "")).lower()
hit_key(hit) ==
    LET url == dict_get(hit, "url", None)
    IN lower(IF Truthy(url) THEN url ELSE dict_get(hit, "title", <<>>))

\* the loop of _dedupe_hits: walks hits[i], hits[i-1], ..., hits[1]; `seen` is the
\* dict's values in insertion order
RECURSIVE dedupe_walk(_, _, _)
dedupe_walk(hits, i, seen) ==
    IF i = 0 THEN seen
    ELSE LET key == hit_key(hits[i])
         IN IF key # <<>> /\ \A k \in 1..Len(seen) : hit_key(seen[k]) # key
            THEN dedupe_walk(hits, i - 1, Append(seen, hits[i]))
            ELSE dedupe_walk(hits, i - 1, seen)

dedupe_hits_unreversed(hits) == dedupe_walk(hits, Len(hits), <<>>)

dedupe_hits(hits) == Reverse(dedupe_walk(hits, Len(hits), <<>>))

\* one formatted evidence line: "[S3] title (url): snippet", or "- title ..." without id
format_line(hit) ==
    LET source_id == dict_get(hit, "source_id", None)
    IN [prefix |-> IF Truthy(source_id) THEN source_id ELSE <<"-">>,
        title |-> hit.title, url |-> hit.url]

\* _format_hits: the lines of the evidence view (joined by "\n" in the code)
format_hits(hits) ==
    IF hits = <<>> THEN <<>>
    ELSE LET shown == Take(dedupe_hits(hits), MAX_CONTEXT_HITS)
         IN [i \in 1..Len(shown) |-> format_line(shown[i])]

\* f"S{n}"
source_id_of(n) == <<"S", n>>

-----------------------------------------------------------------------------
\* tools.py: GoogleSearchTool.run

attempts == 3

\* backoff = 0.5 seconds, in milliseconds
initial_backoff == 500

\* a retry set that also retries 404
RETRY_STATUSES_with_404 == {429, 500, 502, 503, 504, 404}

RETRY_STATUSES == {429, 500, 502, 503, 504}

UNKNOWN_TITLE == <<"U", "n", "k">>

\* raw result items of the provider ("link" and "title" may be missing)
ItemA1 == [title |-> <<"A", "1">>, link |-> <<"a">>]
ItemA2 == [title |-> <<"A", "2">>, link |-> <<"A">>]
ItemB  == [title |-> <<"B", "1">>, link |-> <<"b">>]
ItemT  == [title |-> <<"T">>]
ItemE  == [title |-> <<>>, link |-> <<>>]
ItemU  == [link |-> <<"b">>]

ResultLists ==
    { <<>>, <<ItemA1>>, <<ItemA2>>, <<ItemA1, ItemA2>>, <<ItemB, ItemA1>>,
      <<ItemT, ItemE>> }

\* SearchHit(title=item.get("title", "Unknown Title"), snippet=..., url=item.get("link", ""))
search_hit(item) ==
    [title |-> dict_get(item, "title", UNKNOWN_TITLE), url |-> dict_get(item, "link", <<>>)]

\* the outcomes of one request attempt
Ok(items)     == [kind |-> "ok", items |-> items]
HttpStatus(s) == [kind |-> "status", status |-> s]
Transport     == [kind |-> "transport"]
Unexpected    == [kind |-> "unexpected"]

\* the value run hands back, with the requests sent and the sleeps made on the way
tool_return(hits, error, raised, requests, sleeps) ==
    [hits |-> hits, error |-> error, raised |-> raised,
     requests |-> requests, sleeps |-> sleeps]

\* the for loop of run, from `attempt` on; outcomes[attempt] is what the request of
\* that attempt meets
RECURSIVE run_loop(_, _, _, _, _)
run_loop(outcomes, attempt, backoff, last_error, sleeps) ==
    IF attempt > attempts
    THEN tool_return(<<>>, last_error, FALSE, attempt - 1, sleeps)
    ELSE LET o == outcomes[attempt]
         IN CASE o.kind = "ok" ->
                   tool_return([i \in 1..Len(o.items) |-> search_hit(o.items[i])],
                               None, FALSE, attempt, sleeps)
              [] o.kind = "status" ->
                   IF o.status \in RETRY_STATUSES /\ attempt < attempts
                   THEN run_loop(outcomes, attempt + 1, backoff * 2,
                                 <<"HTTP", o.status>>, Append(sleeps, backoff))
                   ELSE tool_return(<<>>, <<"HTTP", o.status>>, FALSE, attempt, sleeps)
              [] o.kind = "transport" ->
                   IF attempt < attempts
                   THEN run_loop(outcomes, attempt + 1, backoff * 2,
                                 <<"HTTP error">>, Append(sleeps, backoff))
                   ELSE tool_return(<<>>, <<"HTTP error">>, FALSE, attempt, sleeps)
              [] OTHER ->
                   tool_return(<<>>, <<"Unexpected error">>, FALSE, attempt, sleeps)

\* run sleeping at the top of the loop, before every attempt
run_sleeps_before_attempt(outcomes) ==
    run_loop(outcomes, 1, initial_backoff * 2, None, <<initial_backoff>>)

\* run ending in `return [], None` instead of `return [], last_error`
run_drops_last_error(outcomes) ==
    LET r == run_loop(outcomes, 1, initial_backoff, None, <<>>)
    IN IF r.requests = attempts /\ outcomes[attempts].kind # "ok"
       THEN [r EXCEPT !.error = None]
       ELSE r

run(outcomes) == run_loop(outcomes, 1, initial_backoff, None, <<>>)

NoReturn == [hits |-> <<>>, error |-> None, raised |-> FALSE, requests |-> 0, sleeps |-> <<>>]

-----------------------------------------------------------------------------
\* what the search provider does in the runs explored: each is the outcome of
\* attempt 1, 2 and 3 of one call
WorkflowScripts ==
    { <<Ok(l), Transport, Transport>> : l \in ResultLists }
    \cup { <<HttpStatus(503), HttpStatus(503), HttpStatus(503)>>,
           <<Transport, HttpStatus(429), Ok(<<ItemU>>)>>,
           <<HttpStatus(404), Transport, Transport>>,
           <<Unexpected, Transport, Transport>> }

\* the decisions the planner chain may return (PlannerDecision)
PlannerDecisions ==
    [research_query : {<<"q", "1">>, <<"q", "2">>},
     num_results : {5},
     freshness : {None, <<"d", "7">>}]

\* the decisions the analyzer chain may return (AnalyzerDecision)
\* (research_query, num_results, freshness) of an AnalyzerDecision: each Optional
\* field omitted or given, and an empty query string
AnalyzerOverrides ==
    { <<None, NoNum, None>>,
      <<<<"q", "2">>, NoNum, None>>,
      <<<<>>, 3, None>>,
      <<None, NoNum, <<"d", "7">>>>,
      <<<<"q", "2">>, 3, <<"d", "7">>>> }

AnalyzerDecisions ==
    { [status |-> s, research_query |-> o[1], num_results |-> o[2], freshness |-> o[3]] :
        s \in {"CONTINUE", "FINISH"}, o \in AnalyzerOverrides }

\* no analyzer decision yet
NoDecision == [status |-> "CONTINUE", research_query |-> None, num_results |-> NoNum,
               freshness |-> None]

\* the FinalReport the reporter chain returns
FinalReportValue == <<"FinalReport">>

-----------------------------------------------------------------------------
\* cli.py: run

\* initial_state: the keys it sets
InitialKeys == {"messages", "research_query", "search_results", "status", "final_report"}

\* a recursion limit with room for one more search/analyze round
recursion_limit_loose(n) == n * 2 + 2

\* config["recursion_limit"]
recursion_limit(n) == n * 2

\* state.get(key, default)
state_get(key, value, default) == IF key \in keys THEN value ELSE default

\* The graph runtime numbers its supersteps; the entry superstep is 0 and each node
\* runs in one superstep.  A superstep is started only while the counter has not
\* passed the recursion limit; otherwise invoke raises GraphRecursionError.
CanTick == step <= recursion_limit(cli_max_iters)

Nodes == {"planner", "search_tool", "analyzer", "reporter"}

Init ==
    /\ cli_max_iters \in 1..MaxBudget
    /\ pc = "__start__"
    /\ step = 0
    /\ keys = InitialKeys
    /\ messages = <<[kind |-> "human", note |-> None]>>
    /\ research_query = <<>>
    /\ search_results = <<>>
    /\ status = "CONTINUE"
    /\ final_report = None
    /\ search_error = None
    /\ num_results = 0
    /\ freshness = None
    /\ iterations = 0
    /\ max_iters = 0
    /\ trace = <<>>
    /\ script = <<>>
    /\ ret = NoReturn
    /\ decision = NoDecision
    /\ search_context = <<>>
    /\ source_ids = <<>>

\* workflow.set_entry_point("planner"): the entry superstep writes the input
start ==
    /\ pc = "__start__"
    /\ CanTick
    /\ pc' = "planner"
    /\ step' = step + 1
    /\ UNCHANGED <<cli_max_iters, keys, messages, research_query, search_results,
                   search_error, num_results, freshness, iterations, max_iters,
                   status, final_report, trace, script, ret,
                   decision, search_context, source_ids>>

planner_node ==
    /\ pc = "planner"
    /\ CanTick
    /\ \E d \in PlannerDecisions :
         /\ messages' = Append(messages, [kind |-> "planner", note |-> None])
         /\ research_query' = d.research_query
         /\ num_results' = d.num_results
         /\ freshness' = d.freshness
    /\ status' = "CONTINUE"
    /\ keys' = keys \cup {"num_results", "freshness"}
    /\ pc' = "search_tool"
    /\ step' = step + 1
    /\ trace' = Append(trace, "planner")
    /\ UNCHANGED <<cli_max_iters, search_results, search_error, iterations, max_iters,
                   final_report, script, ret, decision, search_context, source_ids>>

\* a ToolMessage that leaves the tool's error out
tool_message_no_error(error) == [kind |-> "tool", note |-> None]

\* the ToolMessage of search_node: "[Search Results] (error)" and "Error: ..." when
\* the tool handed back an error
tool_message(error) ==
    [kind |-> "tool", note |-> IF Truthy(error) THEN error ELSE None]

\* hits of one search with the source ids search_node gives them
assign_source_ids(hits, base) ==
    [idx \in 1..Len(hits) |->
        [title |-> hits[idx].title, url |-> hits[idx].url,
         source_id |-> source_id_of(base + idx)]]

\* a search_node that writes search_error only when the search failed
next_search_error_kept(error) == IF Truthy(error) THEN error ELSE search_error

\* "search_error": error
next_search_error(error) == error

search_node ==
    /\ pc = "search_tool"
    /\ CanTick
    /\ \E outcomes \in WorkflowScripts :
         LET result == run(outcomes)
             error == result.error
             base == Len(dedupe_hits(state_get("search_results", search_results, <<>>)))
             hits == assign_source_ids(result.hits, base)
         IN /\ ~result.raised
            /\ script' = outcomes
            /\ ret' = result
            /\ search_results' = search_results \o hits
            /\ messages' = Append(messages, tool_message(error))
            /\ search_error' = next_search_error(error)
    /\ iterations' = state_get("iterations", iterations, 0) + 1
    /\ keys' = keys \cup {"search_error", "iterations"}
    /\ pc' = "analyzer"
    /\ step' = step + 1
    /\ trace' = Append(trace, "search_tool")
    /\ UNCHANGED <<cli_max_iters, research_query, num_results, freshness, max_iters,
                   status, final_report, decision, search_context, source_ids>>

\* the two targets of the conditional edge swapped
route_always_search(s) == "search_tool"

route_swapped(s) == IF s = "CONTINUE" THEN "reporter" ELSE "search_tool"

\* add_conditional_edges("analyzer", lambda state: state["status"],
\*                       {"CONTINUE": "search_tool", "FINISH": "reporter"})
route(s) == IF s = "CONTINUE" THEN "search_tool" ELSE "reporter"

next_query_no_fallback(d) == d.research_query

\* decision.research_query or state["research_query"]
next_query(d) == IF Truthy(d.research_query) THEN d.research_query ELSE research_query

force_finish_at_zero(d) ==
    /\ state_get("iterations", iterations, 0) >= state_get("max_iters", max_iters, 0)
    /\ d.status = "CONTINUE"

\* iterations >= max_iters > 0 and decision.status == "CONTINUE"
force_finish(d) ==
    /\ state_get("iterations", iterations, 0) >= state_get("max_iters", max_iters, 0)
    /\ state_get("max_iters", max_iters, 0) > 0
    /\ d.status = "CONTINUE"

analyzer_node ==
    /\ pc = "analyzer"
    /\ CanTick
    /\ search_context' = format_hits(state_get("search_results", search_results, <<>>))
    /\ \E d \in AnalyzerDecisions :
         /\ decision' = d
         /\ research_query' = next_query(d)
         /\ num_results' = IF d.num_results # NoNum
                           THEN d.num_results
                           ELSE state_get("num_results", num_results, 5)
         /\ freshness' = IF d.freshness # None
                         THEN d.freshness
                         ELSE state_get("freshness", freshness, None)
         /\ messages' = Append(messages,
                           [kind |-> "analyzer",
                            note |-> IF force_finish(d)
                                     THEN <<d.status, "max iters reached">>
                                     ELSE <<d.status>>])
         /\ status' = IF force_finish(d) THEN "FINISH" ELSE d.status
    /\ keys' = keys \cup {"num_results", "freshness"}
    /\ pc' = route(status')
    /\ step' = step + 1
    /\ trace' = Append(trace, "analyzer")
    /\ UNCHANGED <<cli_max_iters, search_results, search_error, iterations, max_iters,
                   final_report, script, ret, source_ids>>

\* [hit.get("source_id") for hit in _dedupe_hits(...) if hit.get("source_id")]
allowed_sources(hits) ==
    LET d == dedupe_hits(hits)
    IN SelectSeq([i \in 1..Len(d) |-> dict_get(d[i], "source_id", None)], Truthy)

after_reporter_loop == "reporter"

\* add_edge("reporter", END)
after_reporter == "__end__"

reporter_node ==
    /\ pc = "reporter"
    /\ CanTick
    /\ source_ids' = allowed_sources(state_get("search_results", search_results, <<>>))
    /\ search_context' = format_hits(state_get("search_results", search_results, <<>>))
    /\ messages' = Append(messages, [kind |-> "reporter", note |-> None])
    /\ final_report' = FinalReportValue
    /\ status' = "FINISH"
    /\ pc' = after_reporter
    /\ step' = step + 1
    /\ trace' = Append(trace, "reporter")
    /\ UNCHANGED <<cli_max_iters, keys, research_query, search_results, search_error,
                   num_results, freshness, iterations, max_iters, script, ret,
                   decision>>

decision_error_retried ==
    /\ pc \in {"planner", "analyzer", "reporter"}
    /\ CanTick
    /\ pc' = pc
    /\ trace' = Append(trace, pc)
    /\ UNCHANGED <<cli_max_iters, step, keys, messages, research_query, search_results,
                   search_error, num_results, freshness, iterations, max_iters,
                   status, final_report, script, ret,
                   decision, search_context, source_ids>>

\* a chain.invoke call of planner_node, analyzer_node or reporter_node raises: the
\* node returns no update and workflow.invoke raises
decision_error ==
    /\ pc \in {"planner", "analyzer", "reporter"}
    /\ CanTick
    /\ pc' = "DecisionError"
    /\ trace' = Append(trace, pc)
    /\ UNCHANGED <<cli_max_iters, step, keys, messages, research_query, search_results,
                   search_error, num_results, freshness, iterations, max_iters,
                   status, final_report, script, ret,
                   decision, search_context, source_ids>>

\* the recursion limit is passed before the graph reached END
out_of_steps ==
    /\ pc \in Nodes \cup {"__end__"}
    /\ ~CanTick
    /\ pc' = "GraphRecursionError"
    /\ UNCHANGED <<cli_max_iters, step, keys, messages, research_query, search_results,
                   search_error, num_results, freshness, iterations, max_iters,
                   status, final_report, trace, script, ret,
                   decision, search_context, source_ids>>

\* the graph reached END: workflow.invoke returns final_state to run
finish ==
    /\ pc = "__end__"
    /\ CanTick
    /\ pc' = "done"
    /\ UNCHANGED <<cli_max_iters, step, keys, messages, research_query, search_results,
                   search_error, num_results, freshness, iterations, max_iters,
                   status, final_report, trace, script, ret,
                   decision, search_context, source_ids>>

Next ==
    \/ start
    \/ planner_node
    \/ search_node
    \/ analyzer_node
    \/ reporter_node
    \/ decision_error
    \/ out_of_steps
    \/ finish

Spec == Init /\ [][Next]_vars

\* the run is over: invoke returned or raised
Terminal == pc \in {"done", "GraphRecursionError", "DecisionError"}

-----------------------------------------------------------------------------
\* GoogleSearchTool.run on its own: one call against every provider behaviour

ToolOutcomes ==
    { Ok(<<>>), Ok(<<ItemA1, ItemU>>), Transport, Unexpected }
    \cup { HttpStatus(s) : s \in {429, 500, 502, 503, 504, 400, 404} }

ToolScripts == [1..attempts -> ToolOutcomes]

InitTool ==
    /\ cli_max_iters = 1
    /\ pc = "tool"
    /\ step = 0
    /\ keys = InitialKeys
    /\ messages = <<[kind |-> "human", note |-> None]>>
    /\ research_query = <<>>
    /\ search_results = <<>>
    /\ status = "CONTINUE"
    /\ final_report = None
    /\ search_error = None
    /\ num_results = 0
    /\ freshness = None
    /\ iterations = 0
    /\ max_iters = 0
    /\ trace = <<>>
    /\ script \in ToolScripts
    /\ ret = NoReturn
    /\ decision = NoDecision
    /\ search_context = <<>>
    /\ source_ids = <<>>

tool_call ==
    /\ pc = "tool"
    /\ ret' = run(script)
    /\ pc' = IF ret'.raised THEN "tool_raised" ELSE "tool_returned"
    /\ UNCHANGED <<cli_max_iters, step, keys, messages, research_query, search_results,
                   search_error, num_results, freshness, iterations, max_iters,
                   status, final_report, trace, script,
                   decision, search_context, source_ids>>

NextTool == tool_call

SpecTool == InitTool /\ [][NextTool]_vars

-----------------------------------------------------------------------------
\* _format_hits applied to the hits two searches leave in search_results

\* the most hits one of the two searches returns (num_results is at most 10)
MaxBatch == 7

\* one-letter urls, all different
Letters == <<"c", "d", "e", "f", "g", "h", "i", "j", "k", "l", "m", "n", "o", "p", "q", "r">>

\* n hits of one search with the urls Letters[first], Letters[first + 1], ...
BatchHits(first, n, tag) ==
    [i \in 1..n |-> [title |-> <<Letters[first + i - 1], tag>>,
                     url |-> <<Letters[first + i - 1]>>]]

\* search_results after a search with n1 hits and one with n2 hits, with the source
\* ids search_node gives them; with o = 1 the second search returns the last url of
\* the first search again
TwoSearches(n1, n2, o) ==
    LET first == assign_source_ids(BatchHits(1, n1, "1"), 0)
        second == assign_source_ids(BatchHits(n1 + 1 - o, n2, "2"),
                                    Len(dedupe_hits(first)))
    IN first \o second

FormatInputs ==
    { TwoSearches(c[1], c[2], c[3]) :
        c \in { x \in (0..MaxBatch) \X (0..MaxBatch) \X {0, 1} : x[3] <= x[1] } }

InitFormat ==
    /\ cli_max_iters = MaxBudget
    /\ pc = "format"
    /\ step = 0
    /\ keys = InitialKeys \cup {"num_results", "freshness", "search_error", "iterations"}
    /\ messages = <<[kind |-> "human", note |-> None]>>
    /\ research_query = <<"q", "1">>
    /\ search_results \in FormatInputs
    /\ status = "CONTINUE"
    /\ final_report = None
    /\ search_error = None
    /\ num_results = 5
    /\ freshness = None
    /\ iterations = 2
    /\ max_iters = 0
    /\ trace = <<>>
    /\ script = <<>>
    /\ ret = NoReturn
    /\ decision = NoDecision
    /\ search_context = <<>>
    /\ source_ids = <<>>

\* "search_context": _format_hits(state.get("search_results", []))
format_call ==
    /\ pc = "format"
    /\ search_context' = format_hits(state_get("search_results", search_results, <<>>))
    /\ pc' = "formatted"
    /\ UNCHANGED <<cli_max_iters, step, keys, messages, research_query, search_results,
                   search_error, num_results, freshness, iterations, max_iters,
                   status, final_report, trace, script, ret, decision, source_ids>>

NextFormat == format_call

SpecFormat == InitFormat /\ [][NextFormat]_vars

-----------------------------------------------------------------------------
\* analyzer_node applied to the states a workflow can hand it; max_iters is in the
\* state only when the caller of the workflow put it in the initial state

\* values of max_iters a caller may give
GivenMaxIters == {-1, 0, 1, 2}

InitAnalyze ==
    /\ cli_max_iters = MaxBudget
    /\ pc = "analyzer"
    /\ step = 3
    /\ \/ keys = InitialKeys \cup {"num_results", "freshness", "search_error", "iterations"}
          /\ max_iters = 0
       \/ keys = InitialKeys \cup {"num_results", "freshness", "search_error", "iterations",
                                   "max_iters"}
          /\ max_iters \in GivenMaxIters
    /\ messages = <<[kind |-> "human", note |-> None], [kind |-> "planner", note |-> None],
                    [kind |-> "tool", note |-> None]>>
    /\ research_query = <<"q", "1">>
    /\ search_results = assign_source_ids(<<search_hit(ItemA1)>>, 0)
    /\ status = "CONTINUE"
    /\ final_report = None
    /\ search_error = None
    /\ num_results = 5
    /\ freshness = None
    /\ iterations \in 1..MaxBudget
    /\ trace = <<"planner", "search_tool">>
    /\ script = <<Ok(<<ItemA1>>), Transport, Transport>>
    /\ ret = run(script)
    /\ decision = NoDecision
    /\ search_context = <<>>
    /\ source_ids = <<>>

NextAnalyze == analyzer_node

SpecAnalyze == InitAnalyze /\ [][NextAnalyze]_vars

-----------------------------------------------------------------------------
\* Properties

Last(s) == s[Len(s)]

Iterations == state_get("iterations", iterations, 0)

\* the status an analyzer message reports the stage to have left
AnalyzerLeft(m) == IF Len(m.note) = 2 THEN "FINISH" ELSE m.note[1]

\* the Decision Maker answered CONTINUE at every ANALYZING stage so far
AlwaysContinue ==
    \A i \in DOMAIN messages :
        messages[i].kind = "analyzer" => messages[i].note[1] = "CONTINUE"

\* C1: when the run is over (invoke returned or raised), the number of completed
\* searches is at most the iteration budget given to run.
C1_IterationsWithinBudget == Terminal => Iterations <= cli_max_iters

\* C1 witness: a run that is over and has used its whole budget of searches
C1_Witness ==
    /\ Terminal
    /\ "iterations" \in keys
    /\ iterations = cli_max_iters
    /\ cli_max_iters >= 2

\* C2: a run whose Decision Maker answers CONTINUE at every ANALYZING stage (and
\* never fails) ends with a report after exactly cli_max_iters searches.
C2_ForcedFinishWithReport ==
    (/\ Terminal
     /\ pc # "DecisionError"
     /\ \E i \in DOMAIN messages : messages[i].kind = "analyzer"
     /\ AlwaysContinue)
        => (pc = "done" /\ final_report # None /\ Iterations = cli_max_iters)

\* C3: the max_iters field of the run state holds the budget given to run, so the
\* force-finish check of ANALYZING compares iterations against it.
C3_MaxItersIsBudget ==
    pc = "analyzer" => state_get("max_iters", max_iters, 0) = cli_max_iters

\* the hits the searches before the most recent one returned, and those of the most
\* recent one (which search_node appended last)
EarlierHits == 1..(Len(search_results) - Len(ret.hits))
LatestHits == (Len(search_results) - Len(ret.hits) + 1)..Len(search_results)

\* C4: a hit returned by a later search whose dedup key was already seen carries the
\* citation id the key already has.
C4_OneIdPerKey ==
    \A i \in EarlierHits, j \in LatestHits :
        (hit_key(search_results[i]) = hit_key(search_results[j])
            /\ hit_key(search_results[i]) # <<>>)
        => search_results[i].source_id = search_results[j].source_id

\* C5: hits with different dedup keys never carry the same citation id.
C5_UniqueIds ==
    \A i, j \in DOMAIN search_results :
        (/\ hit_key(search_results[i]) # <<>>
         /\ hit_key(search_results[j]) # <<>>
         /\ hit_key(search_results[i]) # hit_key(search_results[j]))
        => search_results[i].source_id # search_results[j].source_id

\* the dedup key of a line of the evidence view
line_key(line) == lower(IF line.url # <<>> THEN line.url ELSE line.title)

\* C6: when an earlier and a later search returned hits with one dedup key and
\* different titles, the evidence view has exactly one line for the key, the line
\* shows the later title, and both hits and the line carry the same citation id,
\* the one of the first occurrence.
C6_LaterTitleSameId ==
    \A i \in EarlierHits, j \in LatestHits :
        (/\ hit_key(search_results[i]) = hit_key(search_results[j])
         /\ hit_key(search_results[i]) # <<>>
         /\ search_results[i].title # search_results[j].title
         /\ \A k \in DOMAIN search_results :
               (k < i \/ k > j) => hit_key(search_results[k]) # hit_key(search_results[j]))
        => LET view == format_hits(search_results)
               at == {n \in DOMAIN view : line_key(view[n]) = hit_key(search_results[j])}
           IN /\ Cardinality(at) = 1
              /\ \A n \in at :
                    /\ view[n].title = search_results[j].title
                    /\ view[n].prefix = search_results[i].source_id
              /\ search_results[i].source_id = search_results[j].source_id

\* no attempt of the call meets a successful response
AllAttemptsFail(outcomes) == \A k \in 1..attempts : outcomes[k].kind # "ok"

RetryableFailure(o) ==
    \/ o.kind = "transport"
    \/ o.kind = "status" /\ o.status \in {429, 500, 502, 503, 504}

\* C8: a call sends between 1 and 3 requests, and every request but the last one
\* ended in a retryable failure (so a success, any other HTTP status or any other
\* fault ends the call at once).
C8_RetryPolicy ==
    pc = "tool_returned"
        => /\ ret.requests \in 1..3
           /\ \A k \in 1..(ret.requests - 1) : RetryableFailure(script[k])

\* C8 witness: three requests, after a 429 and a transport error
C8_Witness ==
    /\ pc = "tool_returned"
    /\ script[1] = HttpStatus(429)
    /\ script[2] = Transport
    /\ script[3] = HttpStatus(404)
    /\ ret.requests = 3

\* the error string of a failed attempt
ErrorOf(o) ==
    CASE o.kind = "status" -> <<"HTTP", o.status>>
      [] o.kind = "transport" -> <<"HTTP error">>
      [] OTHER -> <<"Unexpected error">>

\* C9: the call always returns (it never raises); when its last attempt failed, the
\* hit list is empty and the error is the string of that last attempt.
C9_NoFaultEscapes ==
    /\ pc # "tool_raised"
    /\ (pc = "tool_returned" /\ script[ret.requests].kind # "ok")
          => (ret.hits = <<>> /\ ret.error = ErrorOf(script[ret.requests]))

\* C9 witness: a call that used all three attempts and failed on the last
C9_Witness ==
    /\ pc = "tool_returned"
    /\ script[1] = Transport
    /\ script[2] = HttpStatus(500)
    /\ script[3] = Transport
    /\ ret.error = <<"HTTP error">>

\* C10: the stages run in the order PLANNING, SEARCHING, (ANALYZING, SEARCHING)*,
\* ANALYZING, REPORTING: the planner runs first and only once, an analyzer follows
\* every search and a search precedes every analyzer, the reporter runs once, last,
\* right after an analyzer that left status FINISH, and a run that returned ran
\* the reporter.
C10_StageOrder ==
    /\ \A i \in DOMAIN trace :
          /\ (trace[i] = "planner") <=> (i = 1)
          /\ (trace[i] = "search_tool" /\ i < Len(trace)) => trace[i + 1] = "analyzer"
          /\ (trace[i] = "search_tool") => trace[i - 1] \in {"planner", "analyzer"}
          /\ (trace[i] = "analyzer") => trace[i - 1] = "search_tool"
          /\ (trace[i] = "reporter") => (i = Len(trace) /\ trace[i - 1] = "analyzer")
    /\ \A i \in DOMAIN messages :
          (messages[i].kind = "reporter")
              => (messages[i - 1].kind = "analyzer" /\ AnalyzerLeft(messages[i - 1]) = "FINISH")
    /\ (trace # <<>> /\ Last(trace) = "reporter") => status = "FINISH"
    /\ (pc = "done") => (Len(trace) >= 4 /\ Last(trace) = "reporter")

\* C10 witness: a run that returned
C10_Witness ==
    /\ pc = "done"
    /\ trace = <<"planner", "search_tool", "analyzer", "reporter">>

-----------------------------------------------------------------------------
\* Decision Maker failures

DecisionStages == {"planner", "analyzer", "reporter"}

\* how many times a stage was entered, and how many times it completed
Executed(k) == Cardinality({i \in 1..Len(trace) : trace[i] = k})
Answered(k) == Cardinality({i \in 1..Len(messages) : messages[i].kind = k})

\* C11: a stage whose Decision Maker call fails is entered once more than it
\* completed and is the last stage of the run: it is not entered again, no other
\* stage runs after it, the run is over, and final_report is not set. Every other
\* stage entered has completed.
C11_DecisionFailureFatal ==
    /\ \A k \in DecisionStages :
          Executed(k) - Answered(k) =
              IF pc = "DecisionError" /\ Last(trace) = k THEN 1 ELSE 0
    /\ pc = "DecisionError" => final_report = None /\ ~ENABLED Next

\* C11 witness: the analyzer's Decision Maker call failed after a search that
\* returned hits
C11_Witness ==
    /\ pc = "DecisionError"
    /\ Last(trace) = "analyzer"
    /\ search_results # <<>>
    /\ Answered("planner") = 1

-----------------------------------------------------------------------------
\* status and final_report

\* C12: status is CONTINUE or FINISH; a step taken while status is FINISH leaves it
\* FINISH and is not a SEARCHING stage.
C12_StatusMonotone ==
    [][ /\ status' \in {"CONTINUE", "FINISH"}
        /\ status = "FINISH" =>
              /\ status' = "FINISH"
              /\ trace' # Append(trace, "search_tool") ]_vars

\* C12 witness: the reporter has run, after two searches, on a FINISH status
C12_Witness ==
    /\ pc = "__end__"
    /\ status = "FINISH"
    /\ Executed("search_tool") = 2

\* the step completes the reporter stage
ReporterStep ==
    /\ Len(messages') = Len(messages) + 1
    /\ Last(messages').kind = "reporter"

\* C13: final_report changes only in a step that completes the reporter stage, such
\* a step finds it unset, and after any step that leaves it set status is FINISH.
C13_ReportWrittenOnce ==
    [][ /\ final_report' # final_report => ReporterStep
        /\ ReporterStep => final_report = None /\ final_report' # None
        /\ final_report' # None => status' = "FINISH" ]_vars

\* C13 witness: a run that returned with the report written by its one reporter stage
C13_Witness ==
    /\ pc = "done"
    /\ final_report = FinalReportValue
    /\ Answered("reporter") = 1
    /\ Last(messages).kind = "reporter"

-----------------------------------------------------------------------------
\* deduplication and id assignment applied again

\* the step is a SEARCHING stage
SearchStep == trace' = Append(trace, "search_tool")

\* C14: deduplicating the deduplicated hits changes nothing, and a SEARCHING stage
\* whose search returned no hits leaves search_results, and with it every assigned
\* source_id, as it was.
C14_DedupeIdempotent ==
    [][ /\ dedupe_hits(dedupe_hits(search_results')) = dedupe_hits(search_results')
        /\ SearchStep /\ ret'.hits = <<>> =>
              /\ search_results' = search_results
              /\ allowed_sources(search_results') = allowed_sources(search_results) ]_vars

\* C14 witness: a search that succeeded with no hits, after searches that returned
\* hits of two keys, one of them twice
C14_Witness ==
    /\ pc = "analyzer"
    /\ ret.hits = <<>>
    /\ ret.error = None
    /\ Len(dedupe_hits(search_results)) >= 2
    /\ Len(search_results) > Len(dedupe_hits(search_results))

-----------------------------------------------------------------------------
\* the evidence view

\* C15: when more than 12 hits are left after deduplication, the formatted evidence
\* has exactly 12 lines and each of them shows one of the 12 latest deduplicated hits.
C15_EvidenceIsMostRecent ==
    pc = "formatted" /\ Len(dedupe_hits(search_results)) > 12 =>
        LET d == dedupe_hits(search_results)
        IN /\ Len(search_context) = 12
           /\ \A i \in 1..Len(search_context) :
                 \E j \in (Len(d) - 11)..Len(d) :
                     /\ search_context[i].title = d[j].title
                     /\ search_context[i].url = d[j].url

-----------------------------------------------------------------------------
\* the analyzer stage

\* C16: after an analyzer stage run with max_iters <= 0 (or with no max_iters),
\* status is the decision's status and the analyzer message has no forced-finish
\* mark, whatever iterations is.
C16_NoForceFinishWithoutBudget ==
    pc # "analyzer" /\ state_get("max_iters", max_iters, 0) <= 0 =>
        /\ status = decision.status
        /\ Last(messages).note = <<decision.status>>

\* C16 witness: the analyzer has left CONTINUE in place with max_iters = -1 in the
\* state and iterations above it
C16_Witness ==
    /\ pc = "search_tool"
    /\ "max_iters" \in keys
    /\ max_iters = -1
    /\ iterations = MaxBudget
    /\ decision.status = "CONTINUE"
    /\ status = "CONTINUE"

\* the step completes the analyzer stage
AnalyzerStep ==
    /\ Len(messages') = Len(messages) + 1
    /\ Last(messages').kind = "analyzer"

\* C17: an analyzer stage changes research_query, num_results and freshness only to
\* an override its decision gives: with the query omitted (or empty) research_query
\* stays as it was and is never emptied, with num_results or freshness omitted that
\* parameter stays as it was; search_results, iterations and max_iters are untouched.
C17_AnalyzerFrame ==
    [][ AnalyzerStep =>
          /\ research_query' = IF decision'.research_query \in {None, <<>>}
                               THEN research_query ELSE decision'.research_query
          /\ research_query' \notin {None, <<>>}
          /\ num_results' = IF decision'.num_results = NoNum
                            THEN num_results ELSE decision'.num_results
          /\ freshness' = IF decision'.freshness = None
                          THEN freshness ELSE decision'.freshness
          /\ search_results' = search_results
          /\ iterations' = iterations
          /\ max_iters' = max_iters
          /\ keys' = keys ]_vars

\* C17 witness: the analyzer has run on a decision with no override, after the
\* planner chose a freshness
C17_Witness ==
    /\ Last(messages).kind = "analyzer"
    /\ decision.research_query = None
    /\ decision.num_results = NoNum
    /\ decision.freshness = None
    /\ research_query = <<"q", "1">>
    /\ freshness = <<"d", "7">>
    /\ search_results # <<>>

-----------------------------------------------------------------------------
\* backoff

\* the attempts of a call that are followed by another attempt: every attempt up to
\* them ended in a retryable failure and they are not the last attempt allowed
Retried(outcomes) ==
    {k \in 1..2 : \A j \in 1..k : RetryableFailure(outcomes[j])}

\* C18: a call sleeps once after each attempt that is followed by another attempt and
\* at no other time: 0.5 s before attempt 2, 1.0 s before attempt 3, nothing before
\* attempt 1, after the last attempt or after a failure that is not retried.
C18_BackoffSchedule ==
    pc = "tool_returned" =>
        /\ Len(ret.sleeps) = Cardinality(Retried(script))
        /\ \A k \in 1..Len(ret.sleeps) : ret.sleeps[k] = IF k = 1 THEN 500 ELSE 1000

\* C18 witness: a call whose three attempts failed, the last one too
C18_Witness ==
    /\ pc = "tool_returned"
    /\ script[1] = HttpStatus(503)
    /\ script[2] = Transport
    /\ script[3] = HttpStatus(503)
    /\ ret.sleeps = <<500, 1000>>

-----------------------------------------------------------------------------
\* search_error

\* the call succeeds: some attempt gets an answer and every attempt before it ended
\* in a retryable failure
Succeeds(outcomes) ==
    \E k \in 1..3 :
        /\ outcomes[k].kind = "ok"
        /\ \A j \in 1..(k - 1) : RetryableFailure(outcomes[j])

\* C19: once a SEARCHING stage has run, search_error is a non-empty string exactly
\* when the latest search failed, and None when it succeeded, on whichever attempt
\* and whatever an earlier search left there.
C19_ErrorOfLatestSearch ==
    "search_error" \in keys =>
        /\ search_error # <<>>
        /\ search_error # None <=> ~Succeeds(script)

\* C19 witness: a search that succeeded on its third attempt, after a search that
\* failed, has left no error
C19_Witness ==
    /\ pc = "analyzer"
    /\ script = <<Transport, HttpStatus(429), Ok(<<ItemU>>)>>
    /\ search_error = None
    /\ \E i \in 1..(Len(messages) - 1) :
          messages[i].kind = "tool" /\ messages[i].note # None

-----------------------------------------------------------------------------
\* the reporter call

\* C20: in the reporter call, every id that labels a line of the evidence is in
\* source_ids, every id in source_ids is the source_id of a stored hit, and no id is
\* in source_ids twice.
C20_AllowedIdsConsistent ==
    Answered("reporter") = 1 =>
        /\ \A i \in 1..Len(search_context) :
              search_context[i].prefix # <<"-">> =>
                  \E j \in 1..Len(source_ids) : source_ids[j] = search_context[i].prefix
        /\ \A j \in 1..Len(source_ids) :
              \E h \in 1..Len(search_results) :
                  search_results[h].source_id = source_ids[j]
        /\ \A j, k \in 1..Len(source_ids) :
              source_ids[j] = source_ids[k] => j = k

====
